---- MODULE Spec2Model ----
(***************************************************************************)
(* A model of the honeybadger-rs client: the ConfigBuilder, the            *)
(* normalisation of errors into notice::Error records, and the delivery    *)
(* of one notice (Honeybadger::notify / notify_with_client) raced against  *)
(* a timer.                                                                *)
(*                                                                         *)
(* Option<T> is modelled as a sequence: <<>> is None, <<x>> is Some(x).    *)
(***************************************************************************)
EXTENDS Integers, Sequences, FiniteSets, TLC

VARIABLES
    hb,        \* the Honeybadger value: "Unconfigured", "Configured", "Moved" (consumed)
    config,    \* the Config the client was built from (timeout: Duration)
    calls,     \* per delivery: position, timer, in-flight request, result
    status,    \* SpecClassify: the status code handed to the match
    outcome,   \* SpecClassify: Option<Result<()>> the match produced
    environ,   \* SpecConfig: the process environment read by ConfigBuilder::new
    builder,   \* SpecConfig: Option<ConfigBuilder>
    built,     \* SpecConfig: Option<Config> returned by build
    explicit,  \* SpecConfig: history of the with_* overrides given to the builder
    source,    \* SpecNorm: the application error handed to the normaliser
    record     \* SpecNorm: Option<notice::Error>

vars == <<hb, config, calls, status, outcome, environ, builder, built, explicit,
          source, record>>

None == <<>>
Some(x) == <<x>>
IsSome(o) == Len(o) = 1
Unwrap(o) == o[1]

----------------------------------------------------------------------------
(* Bounds of the model *)

NCalls == 2          \* deliveries that may be in flight together
MaxTimeout == 1      \* largest whole-second timeout a Config carries
MinStatus == 100     \* smallest status code handed to the classification
MaxStatus == 999     \* largest status code handed to the classification

----------------------------------------------------------------------------
(* errors.rs: the ErrorKind of the crate, and Result<()> *)

ErrorKinds ==
    {"Msg", "Hyper", "Http", "Io", "SerdeJson",
     "UnauthorizedError", "RateExceededError", "NotProcessedError",
     "RedirectionError", "ServerError", "TimeoutError", "UnknownStatusCodeError"}

\* Err(kind) with the kind's payload: num for TimeoutError(u64) and
\* UnknownStatusCodeError(u16), cause for the foreign links.
Err(kind, num, cause) == [ok |-> FALSE, kind |-> kind, num |-> num, cause |-> cause]
Ok == [ok |-> TRUE, kind |-> "", num |-> 0, cause |-> ""]

\* Honeybadger::convert_error: Err(kind.into()).err().unwrap()
ConvertError(e) == e

----------------------------------------------------------------------------
(* honeybadger.rs: classification of the response status *)

UNAUTHORIZED == 401
UNPROCESSABLE_ENTITY == 422
TOO_MANY_REQUESTS == 429
INTERNAL_SERVER_ERROR == 500

\* A plausible slip: the success class closed at 300.
IsSuccessInclusive(s) == 300 >= s /\ s >= 200

\* http::StatusCode::is_success, is_redirection
IsSuccess(s) == 300 > s /\ s >= 200
IsRedirection(s) == 400 > s /\ s >= 300

\* A plausible slip: 429 reported as a server error.
ClassifyStatusRateAsServer(s) ==
    IF IsSuccess(s) THEN Ok
    ELSE IF IsRedirection(s) THEN Err("RedirectionError", 0, "")
    ELSE IF s = UNAUTHORIZED THEN Err("UnauthorizedError", 0, "")
    ELSE IF s = UNPROCESSABLE_ENTITY THEN Err("NotProcessedError", 0, "")
    ELSE IF s = TOO_MANY_REQUESTS THEN Err("ServerError", 0, "")
    ELSE IF s = INTERNAL_SERVER_ERROR THEN Err("ServerError", 0, "")
    ELSE Err("UnknownStatusCodeError", s, "")

\* match parts.status { ... }: first arm that matches wins.
ClassifyStatus(s) ==
    IF IsSuccess(s) THEN Ok
    ELSE IF IsRedirection(s) THEN Err("RedirectionError", 0, "")
    ELSE IF s = UNAUTHORIZED THEN Err("UnauthorizedError", 0, "")
    ELSE IF s = UNPROCESSABLE_ENTITY THEN Err("NotProcessedError", 0, "")
    ELSE IF s = TOO_MANY_REQUESTS THEN Err("RateExceededError", 0, "")
    ELSE IF s = INTERNAL_SERVER_ERROR THEN Err("ServerError", 0, "")
    ELSE Err("UnknownStatusCodeError", s, "")

----------------------------------------------------------------------------
(* honeybadger.rs: Config, Honeybadger::new, notify, notify_with_client *)

Calls == 1..NCalls

\* std::time::Duration: whole seconds and the sub-second part in nanoseconds.
SubsecNanos == {0, 500000000}
Duration(secs, nanos) == [secs |-> secs, nanos |-> nanos]
\* A plausible slip: a started second counted as a whole one.
AsSecsRoundUp(d) == IF d.nanos > 0 THEN d.secs + 1 ELSE d.secs

DurationFromSecs(t) == Duration(t, 0)
AsSecs(d) == d.secs

\* What the transport can hand back for one request: a response with a status
\* code (one code of every arm of the match), or a hyper::Error.
DeliveryCodes == {201, 301, 401, 418, 422, 429, 500}
TransportCauses == {"ConnectionRefused"}
Response(code) == [tag |-> "resp", code |-> code, cause |-> ""]
Failure(cause) == [tag |-> "err", code |-> 0, cause |-> cause]

\* create_payload_with_config: Ok(request), the serde_json / http error of `?`,
\* or the panic of env::vars() in serialize when a variable of the process
\* environment is not unicode.
PayloadFailures == {"SerdeJson", "Http"}
PayloadResults == {"ok", "Panic"} \cup PayloadFailures

IdleCall ==
    [pc |-> "idle", via |-> "", timeout |-> 0, sent |-> 0,
     arrived |-> None, elapsed |-> 0, result |-> None]

\* client.request(request) wrapped in tokio::time::timeout(from_secs(timeout), req):
\* one request handed to the client, the timer armed, nothing received yet.
StartedCall(via, t) ==
    [pc |-> "pending", via |-> via, timeout |-> t, sent |-> 1,
     arrived |-> None, elapsed |-> 0, result |-> None]

\* A plausible slip: the timer polled before the request.
PollTimeoutTimerFirst(arrived, elapsed, timer) ==
    IF elapsed >= AsSecs(timer) THEN Some([tag |-> "elapsed", v |-> Failure("")])
    ELSE IF IsSome(arrived) THEN Some([tag |-> "value", v |-> Unwrap(arrived)])
    ELSE None

\* A plausible slip: the deadline one second short.
PollTimeoutEarly(arrived, elapsed, timer) ==
    IF IsSome(arrived) THEN Some([tag |-> "value", v |-> Unwrap(arrived)])
    ELSE IF elapsed + 1 >= AsSecs(timer) THEN Some([tag |-> "elapsed", v |-> Failure("")])
    ELSE None

\* A plausible slip: the request awaited without a timer.
PollTimeoutNoTimer(arrived, elapsed, timer) ==
    IF IsSome(arrived) THEN Some([tag |-> "value", v |-> Unwrap(arrived)])
    ELSE None

\* One poll of tokio::time::timeout(duration, req): the request is polled first,
\* the timer only when the request is still pending.  None is Poll::Pending.
PollTimeout(arrived, elapsed, timer) ==
    IF IsSome(arrived) THEN Some([tag |-> "value", v |-> Unwrap(arrived)])
    ELSE IF elapsed >= AsSecs(timer) THEN Some([tag |-> "elapsed", v |-> Failure("")])
    ELSE None

\* A plausible slip: a failure of the transport taken for an expired timer.
InterpretFailureAsTimeout(ready, timeout) ==
    IF ready.tag = "elapsed" \/ ready.v.tag = "err"
    THEN ConvertError(Err("TimeoutError", timeout, ""))
    ELSE ClassifyStatus(ready.v.code)

\* The rest of notify_with_client once the race is decided: the match on the
\* timeout's result with its `?`, then the match on the status.
Interpret(ready, timeout) ==
    IF ready.tag = "elapsed" THEN ConvertError(Err("TimeoutError", timeout, ""))
    ELSE IF ready.v.tag = "err" THEN ConvertError(Err("Hyper", 0, ready.v.cause))
    ELSE ClassifyStatus(ready.v.code)

Pending(c) == calls[c].pc = "pending"

\* A plausible slip: the request handed to the client before the payload's
\* error is looked at.
NotifyStartSendsFirst(payload) ==
    IF payload = "ok"
    THEN StartedCall("notify", AsSecs(config.timeout))
    ELSE IF payload = "Panic"
    THEN [IdleCall EXCEPT !.pc = "panicked", !.via = "notify",
                          !.timeout = AsSecs(config.timeout)]
    ELSE [IdleCall EXCEPT !.pc = "done", !.via = "notify", !.sent = 1,
                          !.timeout = AsSecs(config.timeout),
                          !.result = Some(Err(payload, 0, "payload"))]

\* The body of notify up to the await: t = config.timeout.as_secs(), the payload
\* built (`?` returns its error, a panic unwinds out of the future with no
\* value returned), then notify_with_client entered.
NotifyStart(payload) ==
    IF payload = "ok"
    THEN StartedCall("notify", AsSecs(config.timeout))
    ELSE IF payload = "Panic"
    THEN [IdleCall EXCEPT !.pc = "panicked", !.via = "notify",
                          !.timeout = AsSecs(config.timeout)]
    ELSE [IdleCall EXCEPT !.pc = "done", !.via = "notify",
                          !.timeout = AsSecs(config.timeout),
                          !.result = Some(Err(payload, 0, "payload"))]

\* The future returned by a call of notify, not polled yet: it owns the
\* Honeybadger value; nothing of the body has run.
CreatedCall == [IdleCall EXCEPT !.pc = "created", !.via = "notify"]

\* pub async fn notify(self, ...): the call takes the Honeybadger value by
\* value into the future it returns and runs nothing of the body.
Notify(c) ==
    /\ hb = "Configured"
    /\ calls[c].pc = "idle"
    /\ hb' = "Moved"
    /\ calls' = [calls EXCEPT ![c] = CreatedCall]
    /\ UNCHANGED config

\* The first poll of the future of notify runs its body up to the await.  A
\* future that is never polled, or is dropped, stays as created.
NotifyPoll(c, payload) ==
    /\ calls[c].pc = "created"
    /\ calls' = [calls EXCEPT ![c] = NotifyStart(payload)]
    /\ UNCHANGED <<hb, config>>

\* notify_with_client(&client, t, request) entered by a caller inside the crate
\* that holds the client handle and the Config by reference.
NotifyWithClient(c) ==
    /\ calls[c].pc = "idle"
    /\ calls' = [calls EXCEPT ![c] = StartedCall("direct", AsSecs(config.timeout))]
    /\ UNCHANGED <<hb, config>>

\* The transport completes the request of c with a response.
Respond(c, code) ==
    /\ Pending(c)
    /\ calls[c].arrived = None
    /\ calls' = [calls EXCEPT ![c].arrived = Some(Response(code))]
    /\ UNCHANGED <<hb, config>>

\* The transport completes the request of c with a hyper::Error.
TransportFail(c, cause) ==
    /\ Pending(c)
    /\ calls[c].arrived = None
    /\ calls' = [calls EXCEPT ![c].arrived = Some(Failure(cause))]
    /\ UNCHANGED <<hb, config>>

\* One second passes for every armed timer that has not reached its deadline.
Tick ==
    /\ \E c \in Calls : Pending(c) /\ calls[c].elapsed < calls[c].timeout
    /\ calls' = [c \in Calls |->
                   IF Pending(c) /\ calls[c].elapsed < calls[c].timeout
                   THEN [calls[c] EXCEPT !.elapsed = @ + 1]
                   ELSE calls[c]]
    /\ UNCHANGED <<hb, config>>

\* A plausible slip: a failed delivery sent once more before it is reported.
PollStepRetry(c) ==
    LET ready == PollTimeout(calls[c].arrived, calls[c].elapsed,
                             DurationFromSecs(calls[c].timeout))
        res == Interpret(Unwrap(ready), calls[c].timeout)
    IN  IF ~res.ok /\ calls[c].sent < 2
        THEN [calls EXCEPT ![c].sent = @ + 1, ![c].arrived = None, ![c].elapsed = 0]
        ELSE [calls EXCEPT ![c].pc = "done", ![c].result = Some(res)]

\* A plausible slip: one timer for all deliveries, so that the timeout of one
\* completes every delivery in flight.
PollStepShared(c) ==
    LET ready == PollTimeout(calls[c].arrived, calls[c].elapsed,
                             DurationFromSecs(calls[c].timeout))
        res == Interpret(Unwrap(ready), calls[c].timeout)
    IN  [d \in Calls |->
           IF d = c \/ (Unwrap(ready).tag = "elapsed" /\ Pending(d))
           THEN [calls[d] EXCEPT !.pc = "done", !.result = Some(res)]
           ELSE calls[d]]

\* The future of c is polled with the race decided: notify_with_client returns.
PollStep(c) ==
    LET ready == PollTimeout(calls[c].arrived, calls[c].elapsed,
                             DurationFromSecs(calls[c].timeout))
    IN  [calls EXCEPT ![c].pc = "done",
                      ![c].result = Some(Interpret(Unwrap(ready), calls[c].timeout))]

Poll(c) ==
    /\ Pending(c)
    /\ IsSome(PollTimeout(calls[c].arrived, calls[c].elapsed,
                          DurationFromSecs(calls[c].timeout)))
    /\ calls' = PollStep(c)
    /\ UNCHANGED <<hb, config>>

othersD == <<status, outcome, environ, builder, built, explicit, source, record>>

\* The parts of the state a specification does not exercise stay as constructed.
ClassifyIdle == status = 0 /\ outcome = None
ConfigIdle == environ = None /\ builder = None /\ built = None /\ explicit = None
NormIdle == source = None /\ record = None

\* The timeouts a Config may carry: whole seconds, or a sub-second part alone
\* or on top of one whole second.
ConfigTimeouts ==
    {Duration(s, 0) : s \in 0..MaxTimeout}
        \cup {Duration(s, n) : s \in 0..1, n \in SubsecNanos}

\* Honeybadger::new(config) has returned Ok: the client is constructed.
Init ==
    /\ hb = "Configured"
    /\ config \in [timeout : ConfigTimeouts]
    /\ calls = [c \in Calls |-> IdleCall]
    /\ ClassifyIdle /\ ConfigIdle /\ NormIdle

Next ==
    \/ \E c \in Calls : Notify(c) /\ UNCHANGED othersD
    \/ \E c \in Calls, p \in PayloadResults : NotifyPoll(c, p) /\ UNCHANGED othersD
    \/ \E c \in Calls : NotifyWithClient(c) /\ UNCHANGED othersD
    \/ \E c \in Calls, code \in DeliveryCodes : Respond(c, code) /\ UNCHANGED othersD
    \/ \E c \in Calls, cause \in TransportCauses : TransportFail(c, cause) /\ UNCHANGED othersD
    \/ Tick /\ UNCHANGED othersD
    \/ \E c \in Calls : Poll(c) /\ UNCHANGED othersD

Spec == Init /\ [][Next]_vars

\* The scheduling notify relies on: the caller awaits the future it got, time
\* passes for an armed timer, and the runtime polls a future whose request or
\* timer is ready.
Fairness ==
    /\ \A c \in Calls :
          WF_vars((\E p \in PayloadResults : NotifyPoll(c, p)) /\ UNCHANGED othersD)
    /\ WF_vars(Tick /\ UNCHANGED othersD)
    /\ \A c \in Calls : WF_vars(Poll(c) /\ UNCHANGED othersD)

\* The deliveries of the public API: every call enters through notify.
NextNotify ==
    \/ \E c \in Calls : Notify(c) /\ UNCHANGED othersD
    \/ \E c \in Calls, p \in PayloadResults : NotifyPoll(c, p) /\ UNCHANGED othersD
    \/ \E c \in Calls, code \in DeliveryCodes : Respond(c, code) /\ UNCHANGED othersD
    \/ \E c \in Calls, cause \in TransportCauses : TransportFail(c, cause) /\ UNCHANGED othersD
    \/ Tick /\ UNCHANGED othersD
    \/ \E c \in Calls : Poll(c) /\ UNCHANGED othersD

SpecLive == Init /\ [][NextNotify]_vars /\ Fairness

----------------------------------------------------------------------------
(* The status match of notify_with_client applied to every status code *)

DeliveryIdle ==
    /\ hb = "Unconfigured"
    /\ config = [timeout |-> Duration(0, 0)]
    /\ calls = [c \in Calls |-> IdleCall]

\* The match on parts.status run on the status of a received response.
Classify ==
    /\ outcome = None
    /\ outcome' = Some(ClassifyStatus(status))
    /\ UNCHANGED <<status, hb, config, calls, environ, builder, built, explicit,
                   source, record>>

InitClassify ==
    /\ status \in MinStatus..MaxStatus
    /\ outcome = None
    /\ DeliveryIdle /\ ConfigIdle /\ NormIdle

NextClassify == Classify

SpecClassify == InitClassify /\ [][NextClassify]_vars

----------------------------------------------------------------------------
(* honeybadger.rs: ConfigBuilder::new, with_*, build *)
(* A String is a sequence of pieces (characters, or opaque parts of a       *)
(* concatenation); the empty String is <<>>.                                *)

MaxLen == 2          \* longest HONEYBADGER_TIMEOUT value, in characters

HONEYBADGER_ENDPOINT == "/v1/notices"
HONEYBADGER_DEFAULT_TIMEOUT == 5
HONEYBADGER_DEFAULT_THREADS == 4
HONEYBADGER_SERVER_URL == "https://api.honeybadger.io"
MockitoServerUrl == "http://127.0.0.1:1234"

Str(x) == <<x>>
EmptyString == <<>>

\* Option::or, Option::unwrap_or / unwrap_or_else
Or(a, b) == IF IsSome(a) THEN a ELSE b
UnwrapOr(o, d) == IF IsSome(o) THEN Unwrap(o) ELSE d

Digits == {"0", "2", "5"}
Alphabet == Digits \cup {"+", "-", ".", "x"}
DigitValue(ch) == CASE ch = "0" -> 0 [] ch = "2" -> 2 [] ch = "5" -> 5

\* All Strings over the alphabet of at most n characters.
StringsUpTo(n) == UNION {[1..k -> Alphabet] : k \in 0..n}

\* The digit loop of u64::from_str: None on a character that is no digit.
\* (No value of MaxLen characters reaches the overflow check.)
RECURSIVE ParseDigits(_, _)
ParseDigits(str, acc) ==
    IF str = <<>> THEN Some(acc)
    ELSE IF Head(str) \notin Digits THEN None
    ELSE ParseDigits(Tail(str), acc * 10 + DigitValue(Head(str)))

\* str::parse::<u64>().ok(): empty and a lone sign are errors, one leading "+"
\* is accepted, "-" is not a digit of an unsigned type.
ParseU64(str) ==
    IF str = <<>> THEN None
    ELSE IF Len(str) = 1 /\ Head(str) \in {"+", "-"} THEN None
    ELSE IF Head(str) = "+" THEN ParseDigits(Tail(str), 0)
    ELSE ParseDigits(str, 0)

\* A plausible slip: a malformed value read as zero seconds instead of dropped.
EnvTimeoutMalformedZero(var) ==
    IF ~IsSome(var) THEN None
    ELSE Some(Duration(UnwrapOr(ParseU64(Unwrap(var)), 0), 0))

\* env::var("HONEYBADGER_TIMEOUT").ok().and_then(|s| s.parse().ok())
\*     .map(|t| Duration::new(t, 0))
EnvTimeout(var) ==
    IF ~IsSome(var) THEN None
    ELSE IF ~IsSome(ParseU64(Unwrap(var))) THEN None
    ELSE Some(Duration(Unwrap(ParseU64(Unwrap(var))), 0))

NoOverrides ==
    [root |-> None, env |-> None, hostname |-> None, endpoint |-> None,
     timeout |-> None, threads |-> None]

\* ConfigBuilder::new(api_token)
NewBuilder(api_token, e) ==
    [api_key |-> api_token,
     root |-> e.HONEYBADGER_ROOT,
     env |-> e.ENV,
     hostname |-> e.HOSTNAME,
     endpoint |-> e.HONEYBADGER_ENDPOINT,
     timeout |-> EnvTimeout(e.HONEYBADGER_TIMEOUT),
     threads |-> None]

New ==
    /\ builder = None /\ built = None
    /\ builder' = Some(NewBuilder(Str("dummy-api-key"), environ))
    /\ UNCHANGED <<environ, built, explicit>>

\* A plausible slip: an override that yields to a value already present.
SetFieldIfUnset(b, field, v) == [b EXCEPT ![field] = Or(@, Some(v))]

\* self.<field> = Some(value); self
SetField(b, field, v) == [b EXCEPT ![field] = Some(v)]

\* with_root, with_env, with_hostname, with_endpoint, with_timeout, with_threads
With(field, v) ==
    /\ IsSome(builder)
    /\ builder' = Some(SetField(Unwrap(builder), field, v))
    /\ explicit' = [explicit EXCEPT ![field] = Some(v)]
    /\ UNCHANGED <<environ, built>>

WithRoot == With("root", Str("/tmp/build"))
WithEnv == With("env", Str("production"))
WithHostname == With("hostname", Str("hickyblue"))
WithEndpoint == With("endpoint", Str("http://example.com/"))
WithTimeout == \E d \in {Duration(5, 0), Duration(0, 500000000)} : With("timeout", d)
WithThreads == With("threads", 8)

\* format!("{}{}", if cfg!(test) { mockito::server_url() } else { SERVER_URL }, ENDPOINT)
DefaultEndpoint(e) ==
    <<IF e.cfg_test THEN MockitoServerUrl ELSE HONEYBADGER_SERVER_URL, HONEYBADGER_ENDPOINT>>

\* ConfigBuilder::build(self)
BuildConfig(b, e) ==
    [api_key |-> b.api_key,
     root |-> UnwrapOr(Or(b.root, e.current_dir), EmptyString),
     env |-> UnwrapOr(b.env, EmptyString),
     hostname |-> UnwrapOr(Or(b.hostname, e.os_hostname), EmptyString),
     endpoint |-> UnwrapOr(b.endpoint, DefaultEndpoint(e)),
     timeout |-> UnwrapOr(b.timeout, Duration(HONEYBADGER_DEFAULT_TIMEOUT, 0)),
     threads |-> UnwrapOr(b.threads, HONEYBADGER_DEFAULT_THREADS)]

Build ==
    /\ IsSome(builder)
    /\ built' = Some(BuildConfig(Unwrap(builder), environ))
    /\ builder' = None
    /\ UNCHANGED <<environ, explicit>>

\* An environment variable: unset (or not unicode), or set to a value.
EnvVar(v) == {None, Some(Str(v))}

Environments(timeouts) ==
    [HONEYBADGER_ROOT : EnvVar("/srv/app"),
     ENV : EnvVar("staging"),
     HOSTNAME : EnvVar("envhost"),
     HONEYBADGER_ENDPOINT : EnvVar("http://proxy.example.com:5050/"),
     HONEYBADGER_TIMEOUT : timeouts,
     current_dir : EnvVar("/cwd"),
     os_hostname : EnvVar("oshost"),
     cfg_test : BOOLEAN]

InitConfig ==
    /\ environ \in Environments({None, Some(<<"2", "0">>), Some(<<"2", "x">>)})
    /\ builder = None /\ built = None /\ explicit = NoOverrides
    /\ DeliveryIdle /\ ClassifyIdle /\ NormIdle

othersC == <<hb, config, calls, status, outcome, source, record>>

NextConfig ==
    \/ New /\ UNCHANGED othersC
    \/ WithRoot /\ UNCHANGED othersC
    \/ WithEnv /\ UNCHANGED othersC
    \/ WithHostname /\ UNCHANGED othersC
    \/ WithEndpoint /\ UNCHANGED othersC
    \/ WithTimeout /\ UNCHANGED othersC
    \/ WithThreads /\ UNCHANGED othersC
    \/ Build /\ UNCHANGED othersC

SpecConfig == InitConfig /\ [][NextConfig]_vars

\* The same builder, with every HONEYBADGER_TIMEOUT value of at most MaxLen
\* characters and the other variables unset.
InitTimeoutEnv ==
    /\ environ \in {e \in Environments({None} \cup {Some(t) : t \in StringsUpTo(MaxLen)}) :
                      /\ e.HONEYBADGER_ROOT = None /\ e.ENV = None /\ e.HOSTNAME = None
                      /\ e.HONEYBADGER_ENDPOINT = None
                      /\ IsSome(e.current_dir) /\ IsSome(e.os_hostname) /\ ~e.cfg_test}
    /\ builder = None /\ built = None /\ explicit = NoOverrides
    /\ DeliveryIdle /\ ClassifyIdle /\ NormIdle

SpecTimeoutEnv == InitTimeoutEnv /\ [][NextConfig]_vars

----------------------------------------------------------------------------
(* notice.rs: an application error normalised into a notice::Error *)
(* An error is the sequence of its links: the error itself, then its cause, *)
(* the cause of that cause, and so on.                                      *)

MaxChain == 3        \* longest chain of links of an application error

ErrorNames == {"RateExceededError", "RedirectionError", "Io"}
Shapes == {"chained", "failure", "boxed"}

\* std::error::Error::description, Display ({}), Debug ({:?}) of one link
Description(name) == <<"description", name>>
Display(name) == <<"display", name>>
Debug(name) == <<"debug", name>>

\* error.cause(): the rest of the chain, if any.
Cause(chain) == IF Len(chain) > 1 THEN Some(Tail(chain)) ELSE None

\* A plausible slip: the iterator started at the first cause.
IterFromCause(chain) == [i \in 1..(Len(chain) - 1) |-> SubSeq(chain, i + 1, Len(chain))]

\* ChainedError::iter(): the error itself, then each cause in turn.
Iter(chain) == [i \in 1..Len(chain) |-> SubSeq(chain, i, Len(chain))]

\* failure::Error::iter_causes(): the causes, without the error itself.
IterCauses(chain) == [i \in 1..(Len(chain) - 1) |-> SubSeq(chain, i + 1, Len(chain))]

\* The line a captured backtrace adds to a rendering ({:?} of the backtrace).
BacktraceLine == <<"", <<"debug", "Backtrace">>>>

\* ChainedError::display_chain(): "Error: {}", one "Caused by: {}" per cause,
\* and then the backtrace when the error captured one (RUST_BACKTRACE set).
DisplayChain(chain, backtrace) ==
    [i \in 1..Len(chain) |-> <<IF i = 1 THEN "Error: " ELSE "Caused by: ", Display(chain[i])>>]
        \o (IF backtrace THEN <<BacktraceLine>> ELSE <<>>)

\* {:?} of a failure::Error: the debug string of the failure, followed by the
\* backtrace when one was captured.
DebugFailure(name, backtrace) ==
    IF backtrace THEN Debug(name) \o <<BacktraceLine>> ELSE Debug(name)

\* A plausible slip: the cause of a link dropped instead of nested.
StdErrFlat(chain) ==
    [class |-> Description(Head(chain)), message |-> None, causes |-> None]

\* Error::std_err
RECURSIVE StdErr(_)
StdErr(chain) ==
    [class |-> Description(Head(chain)),
     message |-> None,
     causes |-> IF IsSome(Cause(chain)) THEN Some(<<StdErr(Unwrap(Cause(chain)))>>) ELSE None]

\* Error::new
ErrorNew(chain, backtrace) ==
    [class |-> Description(Head(chain)),
     message |-> Some(DisplayChain(chain, backtrace)),
     causes |-> Some([i \in 1..Len(Iter(chain)) |-> StdErr(Iter(chain)[i])])]

\* impl From<failure::Error> for Error, impl From<&failure::Error> for Error
FromFailure(chain, backtrace) ==
    [class |-> Display(Head(chain)),
     message |-> Some(DebugFailure(Head(chain), backtrace)),
     causes |-> Some([i \in 1..Len(IterCauses(chain)) |->
                        [class |-> Display(Head(IterCauses(chain)[i])),
                         message |-> Some(Debug(Head(IterCauses(chain)[i]))),
                         causes |-> None]])]

\* A plausible slip: the boxed error's debug string left out.
FromBoxedNoMessage(chain) ==
    [class |-> Display(Head(chain)), message |-> None, causes |-> None]

\* impl From<Box<std::error::Error>> for Error
FromBoxed(chain) ==
    [class |-> Display(Head(chain)),
     message |-> Some(Debug(Head(chain))),
     causes |-> None]

NormalizeChained ==
    /\ record = None /\ source.shape = "chained"
    /\ record' = Some(ErrorNew(source.chain, source.backtrace))
    /\ UNCHANGED source

NormalizeFailure ==
    /\ record = None /\ source.shape = "failure"
    /\ record' = Some(FromFailure(source.chain, source.backtrace))
    /\ UNCHANGED source

NormalizeBoxed ==
    /\ record = None /\ source.shape = "boxed"
    /\ record' = Some(FromBoxed(source.chain))
    /\ UNCHANGED source

Chains == UNION {[1..k -> ErrorNames] : k \in 1..MaxChain}

\* An error to normalise: its shape, its links, and whether it captured a
\* backtrace when it was made.
InitNorm ==
    /\ source \in [shape : Shapes, chain : Chains, backtrace : BOOLEAN]
    /\ record = None
    /\ DeliveryIdle /\ ClassifyIdle /\ ConfigIdle

othersN == <<hb, config, calls, status, outcome, environ, builder, built, explicit>>

NextNorm ==
    \/ NormalizeChained /\ UNCHANGED othersN
    \/ NormalizeFailure /\ UNCHANGED othersN
    \/ NormalizeBoxed /\ UNCHANGED othersN

SpecNorm == InitNorm /\ [][NextNorm]_vars

----------------------------------------------------------------------------
(* Claims about the classification of the status code *)

\* C1: every status code is classified by the first matching rule of
\* 2xx -> Ok, 3xx -> RedirectionError, 401 -> UnauthorizedError,
\* 422 -> NotProcessedError, 429 -> RateExceededError, 500 -> ServerError,
\* anything else -> UnknownStatusCodeError carrying exactly that code.
C1_StatusClassification ==
    IsSome(outcome) =>
        LET r == Unwrap(outcome) IN
        /\ status \in 200..299 => r = Ok
        /\ status \in 300..399 => r = Err("RedirectionError", 0, "")
        /\ status = 401 => r = Err("UnauthorizedError", 0, "")
        /\ status = 422 => r = Err("NotProcessedError", 0, "")
        /\ status = 429 => r = Err("RateExceededError", 0, "")
        /\ status = 500 => r = Err("ServerError", 0, "")
        /\ status \notin (200..399) \cup {401, 422, 429, 500}
              => r = Err("UnknownStatusCodeError", status, "")

C1_Witness ==
    /\ status = 418
    /\ IsSome(outcome)
    /\ Unwrap(outcome).kind = "UnknownStatusCodeError"
    /\ Unwrap(outcome).num = 418

----------------------------------------------------------------------------
(* Claims about one delivery and about deliveries in flight together *)

Done(c) == calls[c].pc = "done"
Result(c) == Unwrap(calls[c].result)

\* A delivery that reached the network: notify_with_client was entered.
Delivered(c) == Done(c) /\ calls[c].sent >= 1

\* What happened to a delivery, in the words of the DeliveryOutcome of the
\* design: read off what the transport handed back, not off the result.
OutcomeTag(c) ==
    LET a == calls[c].arrived IN
    IF a = None THEN "TimedOut"
    ELSE IF Unwrap(a).tag = "err" THEN "TransportFailed"
    ELSE LET code == Unwrap(a).code IN
         IF code \in 200..299 THEN "Success"
         ELSE IF code \in 300..399 THEN "Redirected"
         ELSE IF code = 401 THEN "Unauthorized"
         ELSE IF code = 422 THEN "Unprocessable"
         ELSE IF code = 429 THEN "RateLimited"
         ELSE IF code = 500 THEN "ServerError"
         ELSE "UnknownStatus"

\* C2: a delivery returns Ok(()) exactly when its outcome is Success, and two
\* deliveries with different outcomes never return the same kind of result.
C2_OkIffSuccessKindsDistinct ==
    /\ \A c \in Calls :
          Done(c) => (Result(c).ok <=> (Delivered(c) /\ OutcomeTag(c) = "Success"))
    /\ \A c, d \in Calls :
          (Delivered(c) /\ Delivered(d) /\ OutcomeTag(c) # OutcomeTag(d))
             => Result(c).kind # Result(d).kind

C2_Witness ==
    /\ Delivered(1) /\ OutcomeTag(1) = "RateLimited"
    /\ Result(1).kind = "RateExceededError"
    /\ Delivered(2) /\ OutcomeTag(2) = "ServerError"
    /\ Result(2).kind = "ServerError"

\* C3: a delivery with timeout t whose transport never answered returns
\* TimeoutError(t), and a TimeoutError is returned only when t seconds have
\* passed on its timer.
C3_TimedOutAfterTimeout ==
    \A c \in Calls :
        Delivered(c) =>
            /\ calls[c].arrived = None
                  => Result(c) = Err("TimeoutError", calls[c].timeout, "")
            /\ Result(c).kind = "TimeoutError" => calls[c].elapsed >= calls[c].timeout

C3_Witness ==
    \E c \in Calls :
        /\ Delivered(c) /\ calls[c].arrived = None
        /\ calls[c].timeout = 1 /\ calls[c].elapsed = 1
        /\ Result(c) = Err("TimeoutError", 1, "")

\* C4: TimeoutError is returned only when nothing had been received from the
\* transport at the poll that decided the race; a received response is always
\* classified by its status and a received failure reported as such, also when
\* the deadline had passed before the future was polled.
C4_ReceivedResponseWins ==
    \A c \in Calls :
        Delivered(c) =>
            /\ Result(c).kind = "TimeoutError" => calls[c].arrived = None
            /\ (IsSome(calls[c].arrived) /\ Unwrap(calls[c].arrived).tag = "resp")
                  => Result(c) = ClassifyStatus(Unwrap(calls[c].arrived).code)
            /\ (IsSome(calls[c].arrived) /\ Unwrap(calls[c].arrived).tag = "err")
                  => Result(c).kind = "Hyper"

C4_Witness ==
    \E c \in Calls :
        /\ Delivered(c)
        /\ calls[c].arrived = Some(Response(201))
        /\ calls[c].timeout = 1 /\ calls[c].elapsed >= calls[c].timeout
        /\ Result(c) = Ok

\* C5: a delivery hands exactly one request to the client, whatever its
\* outcome, and every outcome other than Success is returned as an Err.
C5_OneAttemptFailureReturned ==
    \A c \in Calls :
        /\ calls[c].sent <= 1
        /\ Pending(c) => calls[c].sent = 1
        /\ Done(c) => IsSome(calls[c].result)
        /\ (Done(c) /\ Result(c).kind \notin {"SerdeJson", "Http"}) => calls[c].sent = 1
        /\ (Delivered(c) /\ OutcomeTag(c) # "Success") => ~Result(c).ok

C5_Witness ==
    \E c \in Calls :
        /\ Delivered(c) /\ calls[c].via = "notify"
        /\ OutcomeTag(c) = "TransportFailed"
        /\ calls[c].sent = 1
        /\ Result(c) = Err("Hyper", 0, "ConnectionRefused")

\* C6: a constructed client stays Configured across notify calls, so that the
\* same Honeybadger value serves any number of successive calls.
C6_ClientStaysConfigured == [][hb = "Configured" => hb' = "Configured"]_vars

\* C7: with several deliveries in flight, a step that completes one delivery
\* changes nothing of any other delivery, a completed delivery keeps its
\* result, each result is the one its own response, failure or timer gives,
\* and the Config is never modified.
C7_DeliveriesIndependent ==
    [][/\ config' = config
       /\ \A c \in Calls :
            /\ Done(c) => calls'[c] = calls[c]
            /\ (Pending(c) /\ calls'[c].pc = "done") =>
                  /\ \A d \in Calls \ {c} : calls'[d] = calls[d]
                  /\ calls'[c].arrived = calls[c].arrived
                  /\ calls[c].arrived = None =>
                        /\ calls[c].elapsed >= calls[c].timeout
                        /\ calls'[c].result = Some(Err("TimeoutError", calls[c].timeout, ""))
                  /\ IsSome(calls[c].arrived) =>
                        Unwrap(calls'[c].result).kind # "TimeoutError"]_vars

C7_Witness ==
    /\ calls[1].via = "direct" /\ calls[2].via = "direct"
    /\ Delivered(1) /\ OutcomeTag(1) = "TimedOut" /\ Result(1).kind = "TimeoutError"
    /\ Pending(2) /\ calls[2].elapsed = calls[2].timeout
    /\ calls[2].arrived = Some(Response(201))

----------------------------------------------------------------------------
(* Claims about the ConfigBuilder *)

\* C8: every field of the built Config is the explicit with_* override if one
\* was given, else the environment variable read by ConfigBuilder::new, else
\* the computed default, else the empty string; HONEYBADGER_TIMEOUT=20 gives
\* 20 seconds without an override and the override with one; with neither,
\* the values are the current directory, "", the OS hostname, the default
\* endpoint ending in /v1/notices, and 5 seconds.
C8_ConfigPrecedence ==
    IsSome(built) =>
        LET c == Unwrap(built)
            x == explicit
            e == environ
        IN
        /\ c.root = IF IsSome(x.root) THEN Unwrap(x.root)
                    ELSE IF IsSome(e.HONEYBADGER_ROOT) THEN Unwrap(e.HONEYBADGER_ROOT)
                    ELSE IF IsSome(e.current_dir) THEN Unwrap(e.current_dir)
                    ELSE <<>>
        /\ c.env = IF IsSome(x.env) THEN Unwrap(x.env)
                   ELSE IF IsSome(e.ENV) THEN Unwrap(e.ENV)
                   ELSE <<>>
        /\ c.hostname = IF IsSome(x.hostname) THEN Unwrap(x.hostname)
                        ELSE IF IsSome(e.HOSTNAME) THEN Unwrap(e.HOSTNAME)
                        ELSE IF IsSome(e.os_hostname) THEN Unwrap(e.os_hostname)
                        ELSE <<>>
        /\ IF IsSome(x.endpoint) THEN c.endpoint = Unwrap(x.endpoint)
           ELSE IF IsSome(e.HONEYBADGER_ENDPOINT)
                THEN c.endpoint = Unwrap(e.HONEYBADGER_ENDPOINT)
           ELSE c.endpoint[Len(c.endpoint)] = "/v1/notices"
        /\ c.timeout = IF IsSome(x.timeout) THEN Unwrap(x.timeout)
                       ELSE IF e.HONEYBADGER_TIMEOUT = Some(<<"2", "0">>)
                            THEN [secs |-> 20, nanos |-> 0]
                       ELSE [secs |-> 5, nanos |-> 0]

C8_Witness ==
    /\ IsSome(built)
    /\ environ.HONEYBADGER_TIMEOUT = Some(<<"2", "0">>)
    /\ explicit.timeout = Some([secs |-> 5, nanos |-> 0])
    /\ Unwrap(built).timeout = [secs |-> 5, nanos |-> 0]
    /\ explicit.root = None /\ IsSome(environ.HONEYBADGER_ROOT) /\ IsSome(environ.current_dir)
    /\ Unwrap(built).root = Unwrap(environ.HONEYBADGER_ROOT)
    /\ explicit.hostname = None /\ environ.HOSTNAME = None /\ IsSome(environ.os_hostname)
    /\ Unwrap(built).hostname = Unwrap(environ.os_hostname)

\* A HONEYBADGER_TIMEOUT value is an unsigned integer when it is one or more
\* decimal digits, which Rust's parse also takes after one leading "+".
UnsignedBody(str) == IF str # <<>> /\ str[1] = "+" THEN SubSeq(str, 2, Len(str)) ELSE str
IsUnsigned(str) ==
    /\ UnsignedBody(str) # <<>>
    /\ \A i \in 1..Len(UnsignedBody(str)) : UnsignedBody(str)[i] \in {"0", "2", "5"}
RECURSIVE DecimalValue(_)
DecimalValue(ds) ==
    IF ds = <<>> THEN 0
    ELSE 10 * DecimalValue(SubSeq(ds, 1, Len(ds) - 1))
         + (CASE ds[Len(ds)] = "0" -> 0 [] ds[Len(ds)] = "2" -> 2 [] ds[Len(ds)] = "5" -> 5)

\* C9: a HONEYBADGER_TIMEOUT value that is no unsigned integer leaves the
\* builder without a timeout and raises no error, so that the built timeout is
\* the explicit override if given and else 5 seconds; a value that is an
\* unsigned integer is the timeout in seconds.
C9_MalformedTimeoutIgnored ==
    LET var == environ.HONEYBADGER_TIMEOUT
        fromEnv == IF IsSome(var) /\ IsUnsigned(Unwrap(var))
                   THEN Some([secs |-> DecimalValue(UnsignedBody(Unwrap(var))), nanos |-> 0])
                   ELSE None
    IN
    /\ (IsSome(builder) /\ explicit.timeout = None) => Unwrap(builder).timeout = fromEnv
    /\ IsSome(built) =>
          Unwrap(built).timeout =
              IF IsSome(explicit.timeout) THEN Unwrap(explicit.timeout)
              ELSE IF IsSome(fromEnv) THEN Unwrap(fromEnv)
              ELSE [secs |-> 5, nanos |-> 0]

C9_Witness ==
    /\ IsSome(built)
    /\ environ.HONEYBADGER_TIMEOUT = Some(<<"-", "5">>)
    /\ explicit.timeout = None
    /\ Unwrap(built).timeout = [secs |-> 5, nanos |-> 0]

----------------------------------------------------------------------------
(* Claims about the normalisation of errors *)

\* C10: for a chained error whose iterator yields N links, Error::new gives a
\* record whose causes is a list of exactly N records, the i-th made from the
\* i-th link the iterator yields.
C10_ChainLengthPreserved ==
    (IsSome(record) /\ source.shape = "chained") =>
        LET r == Unwrap(record) IN
        /\ IsSome(r.causes)
        /\ Len(Unwrap(r.causes)) = Len(source.chain)
        /\ \A i \in 1..Len(source.chain) :
              Unwrap(r.causes)[i].class = <<"description", source.chain[i]>>

C10_Witness ==
    /\ IsSome(record) /\ source.shape = "chained"
    /\ source.chain = <<"RateExceededError", "RedirectionError">>
    /\ Len(Unwrap(Unwrap(record).causes)) = 2


\* Whether a record, or a record nested in it at any depth, has causes equal to
\* Some of the empty list.
RECURSIVE HasEmptyCauses(_)
HasEmptyCauses(r) ==
    /\ IsSome(r.causes)
    /\ \/ Unwrap(r.causes) = <<>>
       \/ \E i \in 1..Len(Unwrap(r.causes)) : HasEmptyCauses(Unwrap(r.causes)[i])

\* C11: no record produced by normalisation, at any nesting depth and for any
\* of the three shapes, has causes = Some(empty list): a record without causes
\* has causes = None.
C11_NoEmptyCausesList == IsSome(record) => ~HasEmptyCauses(Unwrap(record))

\* C12: the record returned by normalisation always has a class and a message:
\* the chained path gives the description and the rendered display chain (one
\* line per link, in order, and after them the backtrace line exactly when a
\* backtrace was captured), the aggregate path gives the display and the debug
\* string (followed by the backtrace when one was captured), the boxed path
\* gives the display and the debug string and has causes = None; and
\* normalisation is defined for every input.
C12_ClassAndMessagePresent ==
    /\ record = None => ENABLED NextNorm
    /\ IsSome(record) =>
          LET r == Unwrap(record)
              head == source.chain[1]
              n == Len(source.chain)
              extra == IF source.backtrace THEN 1 ELSE 0
          IN
          /\ IsSome(r.message)
          /\ Len(Unwrap(r.message)) >= 1
          /\ source.shape = "chained" =>
                /\ r.class = <<"description", head>>
                /\ Len(Unwrap(r.message)) = n + extra
                /\ \A i \in 1..n :
                      Unwrap(r.message)[i] =
                         <<IF i = 1 THEN "Error: " ELSE "Caused by: ",
                           <<"display", source.chain[i]>>>>
                /\ source.backtrace =>
                      Unwrap(r.message)[n + 1] = <<"", <<"debug", "Backtrace">>>>
          /\ source.shape = "failure" =>
                /\ r.class = <<"display", head>>
                /\ Len(Unwrap(r.message)) = 2 + extra
                /\ SubSeq(Unwrap(r.message), 1, 2) = <<"debug", head>>
          /\ source.shape = "boxed" =>
                /\ r.class = <<"display", head>>
                /\ r.message = <<(<<"debug", head>>)>>
                /\ r.causes = <<>>

C12_Witness ==
    /\ IsSome(record)
    /\ source.shape = "chained" /\ source.backtrace
    /\ source.chain = <<"RateExceededError", "RedirectionError">>
    /\ Len(Unwrap(Unwrap(record).message)) = 3
    /\ Unwrap(Unwrap(record).message)[3] = BacktraceLine

\* The boxed path of the same claim.
C12_WitnessBoxed ==
    /\ IsSome(record)
    /\ source.shape = "boxed" /\ Len(source.chain) = 2
    /\ Unwrap(record).message = <<(<<"debug", source.chain[1]>>)>>
    /\ Unwrap(record).causes = <<>>

\* Whether r is the record of the first of links, with message None, nesting
\* the record of the next link as its only cause, down to the last link whose
\* causes is None.
RECURSIVE IsSingleChain(_, _)
IsSingleChain(r, links) ==
    /\ r.class = <<"description", links[1]>>
    /\ r.message = <<>>
    /\ IF Len(links) = 1 THEN r.causes = <<>>
       ELSE /\ Len(r.causes) = 1
            /\ Len(r.causes[1]) = 1
            /\ IsSingleChain(r.causes[1][1], SubSeq(links, 2, Len(links)))

\* C16: for a chained error of N links, the i-th element of the top-level causes
\* has message None and heads a chain of single-element causes lists through
\* the N - i links that follow it; the last element has causes = None.
C16_NestedSingleChildChain ==
    (IsSome(record) /\ source.shape = "chained") =>
        LET n == Len(source.chain)
            top == Unwrap(Unwrap(record).causes)
        IN
        /\ Len(top) = n
        /\ \A i \in 1..n : IsSingleChain(top[i], SubSeq(source.chain, i, n))
        /\ top[n].causes = <<>>

C16_Witness ==
    /\ IsSome(record) /\ source.shape = "chained"
    /\ Len(source.chain) = 3
    /\ Len(Unwrap(Unwrap(Unwrap(record).causes)[1].causes)) = 1
    /\ IsSome(Unwrap(Unwrap(Unwrap(record).causes)[1].causes)[1].causes)
    /\ Unwrap(Unwrap(record).causes)[3].causes = <<>>

----------------------------------------------------------------------------
(* Claims about the completion of a delivery *)

\* A call that waits on the network eventually completes with one result, a
\* classified status, a transport failure or a timeout, and never stays
\* pending, given that time passes and the runtime polls a ready future.
PendingCallCompletes ==
    \A c \in Calls :
        [](Pending(c) =>
             <>(/\ Done(c)
                /\ IsSome(calls[c].result)
                /\ \/ Result(c) = Ok
                   \/ Result(c).kind \in
                         {"RedirectionError", "UnauthorizedError", "NotProcessedError",
                          "RateExceededError", "ServerError", "UnknownStatusCodeError",
                          "Hyper", "TimeoutError"}))

\* C13: every notify call whose future is awaited eventually completes with
\* one result returned to the caller, given that time passes and the runtime
\* polls a ready future.
C13_EveryCallCompletes ==
    \A c \in Calls :
        [](calls[c].pc = "created" => <>(Done(c) /\ IsSome(calls[c].result)))

-----------------------------------------------------------------------------
(* C14: a failure of the transport *)

IsFailure(a) == IsSome(a) /\ Unwrap(a).tag = "err"

\* C14: when the transport has reported a failure, the delivery is ready to
\* return without its timer having expired, and it returns the Hyper error
\* carrying that cause: not TimeoutError, not Ok, and no kind of a status.
C14_TransportFailureReturned ==
    \A c \in Calls :
        /\ (Pending(c) /\ IsFailure(calls[c].arrived))
              => IsSome(PollTimeout(calls[c].arrived, calls[c].elapsed,
                                    DurationFromSecs(calls[c].timeout)))
        /\ (Done(c) /\ IsFailure(calls[c].arrived))
              => /\ Result(c) = Err("Hyper", 0, Unwrap(calls[c].arrived).cause)
                 /\ Result(c).cause \in TransportCauses
                 /\ Result(c) # Ok
                 /\ Result(c).kind \notin
                       {"TimeoutError", "RedirectionError", "UnauthorizedError",
                        "NotProcessedError", "RateExceededError", "ServerError",
                        "UnknownStatusCodeError"}

C14_Witness ==
    \E c \in Calls :
        /\ Done(c)
        /\ calls[c].arrived = Some(Failure("ConnectionRefused"))
        /\ calls[c].timeout = 1 /\ calls[c].elapsed = 0
        /\ Result(c) = Err("Hyper", 0, "ConnectionRefused")

-----------------------------------------------------------------------------
(* C15: a failure to build the payload *)

PayloadFailed(c) == Done(c) /\ Result(c).kind \in PayloadFailures

\* C15: a payload that cannot be built makes notify return that failure with
\* no request handed to the client, no timer started and nothing received; the
\* failure belongs to a notify call (the client has been taken by it), never
\* to a client that is constructed and not yet used, and a notify call that
\* sent nothing returned such a failure.
C15_PayloadFailureAtNotify ==
    /\ \A c \in Calls :
          /\ PayloadFailed(c)
                => /\ ~Result(c).ok
                   /\ calls[c].via = "notify"
                   /\ hb = "Moved"
                   /\ calls[c].sent = 0
                   /\ calls[c].elapsed = 0
                   /\ calls[c].arrived = None
          /\ (Done(c) /\ calls[c].sent = 0) => PayloadFailed(c)
    /\ hb = "Configured" => \A c \in Calls : calls[c].via # "notify"

C15_Witness ==
    \E c \in Calls :
        /\ PayloadFailed(c)
        /\ Result(c) = Err("Http", 0, "payload")
        /\ calls[c].via = "notify" /\ calls[c].sent = 0
        /\ hb = "Moved"

-----------------------------------------------------------------------------
(* C17: the timer counts whole seconds *)

\* C17: the timer of a delivery runs for the whole seconds of config.timeout
\* and TimeoutError carries that number; the sub-second part is dropped, so
\* a timeout below one second expires at once and reports 0.
C17_TimerWholeSeconds ==
    \A c \in Calls :
        /\ calls[c].pc \notin {"idle", "created"}
              => calls[c].timeout = config.timeout.secs
        /\ (Delivered(c) /\ Result(c).kind = "TimeoutError")
              => /\ Result(c).num = config.timeout.secs
                 /\ calls[c].elapsed = config.timeout.secs
        /\ (Pending(c) /\ calls[c].arrived = None)
              => (IsSome(PollTimeout(None, calls[c].elapsed,
                                     DurationFromSecs(calls[c].timeout)))
                    <=> calls[c].elapsed = config.timeout.secs)
        /\ (Delivered(c) /\ calls[c].arrived = None /\ config.timeout.secs = 0)
              => /\ Result(c) = Err("TimeoutError", 0, "")
                 /\ calls[c].elapsed = 0

C17_Witness ==
    \E c, d \in Calls :
        /\ config.timeout = Duration(0, 500000000)
        /\ Delivered(c) /\ calls[c].via = "notify"
        /\ calls[c].arrived = None /\ calls[c].elapsed = 0
        /\ Result(c) = Err("TimeoutError", 0, "")
        /\ Pending(d) /\ calls[d].timeout = 0

\* The same with a whole second in front of the sub-second part.
C17_WitnessMixed ==
    \E c \in Calls :
        /\ config.timeout = Duration(1, 500000000)
        /\ Delivered(c) /\ calls[c].arrived = None /\ calls[c].elapsed = 1
        /\ Result(c) = Err("TimeoutError", 1, "")

====
